---- MODULE Spec2Model ----
(***************************************************************************)
(* Model of the ETVL pipeline of                                           *)
(*   src/src/datafun_03_analytics/gracetulsi_xlsx_pipeline.py              *)
(* (Extract -> Transform -> Verify -> Load, driven by run_pipeline).       *)
(*                                                                         *)
(* Representation                                                          *)
(*  - A Python str that the code inspects character by character (a cell   *)
(*    text) is a sequence of one-character strings; strings the code only  *)
(*    passes around or writes are TLA+ strings.                            *)
(*  - A Python float is a record [k, v]:                                   *)
(*      k = "fin"  : the finite value v / Scale (v an integer),            *)
(*      k = "huge" : v * 1e308  (v = 1 or -1),                             *)
(*      k = "inf"  : v * infinity (v = 1 or -1),                           *)
(*      k = "nan"  : not-a-number (v = 0).                                 *)
(*    On this domain IEEE-754 double addition and comparison are modelled  *)
(*    exactly: the finite values used are small multiples of 1/2, whose    *)
(*    sums are exact; 1e308 + 1e308 overflows to inf; 1e308 + x = 1e308   *)
(*    for every small x; inf - inf = nan; every comparison with nan is     *)
(*    false.                                                               *)
(*  - A spreadsheet cell is [t, v, s]: t = "none" (empty cell), t = "num"  *)
(*    (numeric cell holding the float v) or t = "str" (text cell holding   *)
(*    the characters s).                                                   *)
(*  - The output file is [exists, data], data the text on disk.  The text  *)
(*    file object buffers what is written to it: the reports of the model  *)
(*    are shorter than the 8192 characters it holds back, so the text      *)
(*    written reaches the disk when the with statement closes the file.    *)
(***************************************************************************)
EXTENDS Integers, Sequences, FiniteSets, TLC

(***************************************************************************)
(* Bounds of the model.                                                    *)
(***************************************************************************)
\* data rows of the sheet (rows 6, 7, ...)
MaxRows == 3
\* consecutive runs of the pipeline on the same input
MaxRuns == 2
\* entries of a map handed directly to the Validator or the Reporter
MaxCats == 3
\* records handed directly to the Aggregator
MaxRecs == 3
\* largest and (negated) smallest top_n handed directly to the Reporter
MaxTopN == 4
NegTopN == 2

(***************************************************************************)
(* Program constants.                                                      *)
(***************************************************************************)
\* finite floats are counted in units of 1/Scale (two decimals, as printed)
Scale == 100
\* "Data starts at row 6"
DataStartRow == 6
\* run_pipeline passes top_n=10
PipelineTopN == 10
\* widths of the three columns of a report line
RankWidth == 4
StateWidth == 5
TotalWidth == 18
\* lengths of the two separator lines
TitleRule == 48
TableRule == 40

(***************************************************************************)
(* Floats.                                                                 *)
(***************************************************************************)
Fin(n) == [k |-> "fin", v |-> n]
NaN == [k |-> "nan", v |-> 0]
Inf == [k |-> "inf", v |-> 1]
NegInf == [k |-> "inf", v |-> -1]
Huge == [k |-> "huge", v |-> 1]
NegHuge == [k |-> "huge", v |-> -1]
Zero == Fin(0)

\* a + b on doubles
FAdd(a, b) ==
    IF a.k = "nan" \/ b.k = "nan" THEN NaN
    ELSE IF a.k = "inf" /\ b.k = "inf" THEN (IF a.v = b.v THEN a ELSE NaN)
    ELSE IF a.k = "inf" THEN a
    ELSE IF b.k = "inf" THEN b
    ELSE IF a.k = "huge" /\ b.k = "huge"
         THEN (IF a.v = b.v THEN [k |-> "inf", v |-> a.v] ELSE Zero)
    ELSE IF a.k = "huge" THEN a
    ELSE IF b.k = "huge" THEN b
    ELSE Fin(a.v + b.v)

\* position of a non-nan double on the extended real line
Magnitude(a) ==
    IF a.k = "inf" THEN 2 * a.v ELSE IF a.k = "huge" THEN a.v ELSE 0

\* a < b on doubles (false whenever a or b is nan)
FLess(a, b) ==
    /\ a.k # "nan"
    /\ b.k # "nan"
    /\ \/ Magnitude(a) < Magnitude(b)
       \/ Magnitude(a) = Magnitude(b) /\ a.k = "fin" /\ a.v < b.v

\* a >= b on doubles (false whenever a or b is nan)
FGeq(a, b) ==
    /\ a.k # "nan"
    /\ b.k # "nan"
    /\ ~FLess(a, b)

(***************************************************************************)
(* Strings.                                                                *)
(***************************************************************************)
IsSpace(c) == c \in {" ", "\t", "\n", "\r"}
Digits == <<"0", "1", "2", "3", "4", "5", "6", "7", "8", "9">>
IsDigit(c) == \E d \in 1..10 : Digits[d] = c
DigitVal(c) == (CHOOSE d \in 1..10 : Digits[d] = c) - 1

RECURSIVE LStrip(_)
LStrip(s) == IF s # <<>> /\ IsSpace(Head(s)) THEN LStrip(Tail(s)) ELSE s

RECURSIVE RStrip(_)
RStrip(s) ==
    IF s # <<>> /\ IsSpace(s[Len(s)]) THEN RStrip(SubSeq(s, 1, Len(s) - 1)) ELSE s

\* str.strip()
Strip(s) == RStrip(LStrip(s))

\* str.replace(",", "")
RemoveCommas(s) == SelectSeq(s, LAMBDA c : c # ",")

\* the characters of s as one string
RECURSIVE Join(_)
Join(s) == IF s = <<>> THEN "" ELSE Head(s) \o Join(Tail(s))

\* str.lower() on the letters the float keywords are made of
Lower(c) ==
    CASE c = "N" -> "n" [] c = "A" -> "a" [] c = "I" -> "i" [] c = "F" -> "f"
      [] c = "T" -> "t" [] c = "Y" -> "y" [] OTHER -> c

LowerAll(s) == [j \in 1..Len(s) |-> Lower(s[j])]

RECURSIVE Repeat(_, _)
Repeat(c, n) == IF n <= 0 THEN "" ELSE c \o Repeat(c, n - 1)

\* format spec ">w": right-aligned in a field of width w
PadLeft(str, w) == Repeat(" ", w - Len(str)) \o str

\* format spec "<w": left-aligned in a field of width w
PadRight(str, w) == str \o Repeat(" ", w - Len(str))

\* str(n) for a natural number
RECURSIVE NatStr(_)
NatStr(n) == IF n < 10 THEN Digits[n + 1] ELSE NatStr(n \div 10) \o Digits[(n % 10) + 1]

\* str(i) for an integer
IntStr(i) == IF i < 0 THEN "-" \o NatStr(-i) ELSE NatStr(i)

\* a natural number with a comma between groups of three digits
RECURSIVE Grouped(_)
Grouped(n) ==
    IF n < 1000 THEN NatStr(n)
    ELSE Grouped(n \div 1000) \o "," \o Digits[((n \div 100) % 10) + 1]
             \o Digits[((n \div 10) % 10) + 1] \o Digits[(n % 10) + 1]

\* format(1e308, ",.2f"): the decimal expansion of the double nearest 1e308
HugeText ==
    "100,000,000,000,000,001,097,906,362,944,045,541,740,492,309,677,311,846,336,810,682,903,157,585,404,911,491,537,163,328,978,494,688,899,061,249,669,721,172,515,611,590,283,743,140,088,328,307,009,198,146,046,031,271,664,502,933,027,185,697,489,699,588,559,043,338,384,466,165,001,178,426,897,626,212,945,177,628,091,195,786,707,458,122,783,970,171,784,415,105,291,802,893,207,873,272,974,885,715,430,223,118,336.00"

\* format spec ",.2f": thousands separators and exactly two decimals
FormatFloat(x) ==
    IF x.k = "nan" THEN "nan"
    ELSE IF x.k = "inf" THEN (IF x.v < 0 THEN "-inf" ELSE "inf")
    ELSE IF x.k = "huge" THEN (IF x.v < 0 THEN "-" \o HugeText ELSE HugeText)
    ELSE LET a == IF x.v < 0 THEN -x.v ELSE x.v
         IN  (IF x.v < 0 THEN "-" ELSE "") \o Grouped(a \div Scale) \o "."
                 \o Digits[((a \div 10) % 10) + 1] \o Digits[(a % 10) + 1]

(***************************************************************************)
(* float(text): surrounding whitespace is ignored; an optional sign is     *)
(* followed by nan, inf or infinity (any case) or by a decimal numeral     *)
(* with at least one digit.  Anything else raises ValueError (ok = FALSE). *)
(* The texts of the model have no exponent, no underscore and at most two  *)
(* decimals, so the numeral's value is an exact multiple of 1/Scale.       *)
(***************************************************************************)
RECURSIVE DigitsVal(_)
DigitsVal(s) ==
    IF s = <<>> THEN 0 ELSE 10 * DigitsVal(SubSeq(s, 1, Len(s) - 1)) + DigitVal(s[Len(s)])

AllDigits(s) == \A j \in 1..Len(s) : IsDigit(s[j])

\* index of the first "." of s, or Len(s) + 1
DotAt(s) ==
    IF \E j \in 1..Len(s) : s[j] = "."
    THEN CHOOSE j \in 1..Len(s) : s[j] = "." /\ \A h \in 1..(j - 1) : s[h] # "."
    ELSE Len(s) + 1

ParseFloat(text) ==
    LET t == Strip(text)
        signed == t # <<>> /\ Head(t) \in {"+", "-"}
        sgn == IF signed /\ Head(t) = "-" THEN -1 ELSE 1
        body == IF signed THEN Tail(t) ELSE t
        word == LowerAll(body)
        dot == DotAt(body)
        whole == SubSeq(body, 1, dot - 1)
        frac == SubSeq(body, dot + 1, Len(body))
        cents == SubSeq(frac \o <<"0", "0">>, 1, 2)
    IN  IF word = <<"n", "a", "n">> THEN [ok |-> TRUE, val |-> NaN]
        ELSE IF word = <<"i", "n", "f">>
                \/ word = <<"i", "n", "f", "i", "n", "i", "t", "y">>
             THEN [ok |-> TRUE, val |-> [k |-> "inf", v |-> sgn]]
        ELSE IF AllDigits(whole) /\ AllDigits(frac) /\ Len(whole) + Len(frac) >= 1
             THEN [ok |-> TRUE,
                   val |-> Fin(sgn * (DigitsVal(whole) * Scale + DigitsVal(cents)))]
        ELSE [ok |-> FALSE, val |-> Zero]

(***************************************************************************)
(* Cells.                                                                  *)
(***************************************************************************)
None == [t |-> "none", v |-> Zero, s |-> <<>>]
Num(x) == [t |-> "num", v |-> x, s |-> <<>>]
Text(chars) == [t |-> "str", v |-> Zero, s |-> chars]

\* _to_float without .replace(",", "")
ToFloatKeepingCommas(value) ==
    IF value.t = "none" THEN Zero
    ELSE IF value.t = "num" THEN value.v
    ELSE LET r == ParseFloat(Strip(value.s))
         IN  IF r.ok THEN r.val ELSE Zero

\* _to_float
ToFloat(value) ==
    IF value.t = "none" THEN Zero
    ELSE IF value.t = "num" THEN value.v
    ELSE LET r == ParseFloat(Strip(RemoveCommas(value.s)))
         IN  IF r.ok THEN r.val ELSE Zero

(***************************************************************************)
(* Extractor: the row loop of extract_state_verified_loss_rows.            *)
(* A sheet is the sequence of its rows 1 .. max_row; a row is [H, I], the  *)
(* cells of columns H and I.  Category cells of the model are empty or     *)
(* text, so str(state_val) is the cell's text.                             *)
(***************************************************************************)
\* state = str(state_val).strip()
RowState(row) == Join(Strip(row.H.s))

\* the loop body without the blank-measure test for text cells
SkipRowBlankTextAdmitted(row) ==
    \/ row.H.t = "none"
    \/ Strip(row.H.s) = <<>>
    \/ row.I.t = "none"

\* the three `continue` tests of the loop body
SkipRow(row) ==
    \/ row.H.t = "none"
    \/ Strip(row.H.s) = <<>>
    \/ row.I.t = "none"
    \/ row.I.t = "str" /\ Strip(row.I.s) = <<>>

\* the iterations r, r + 1, ..., max_row of the loop
RECURSIVE ExtractFrom(_, _)
ExtractFrom(sh, r) ==
    IF r > Len(sh) THEN <<>>
    ELSE (IF SkipRow(sh[r]) THEN <<>>
          ELSE <<[state |-> RowState(sh[r]), loss |-> ToFloat(sh[r].I)]>>)
         \o ExtractFrom(sh, r + 1)

\* for r in range(6, sheet.max_row + 1)
ExtractRows(sh) == ExtractFrom(sh, DataStartRow)

(***************************************************************************)
(* Aggregator.  A dict is the sequence of its items [state, total] in      *)
(* insertion order, keys unique.                                           *)
(***************************************************************************)
HasKey(d, key) == \E j \in 1..Len(d) : d[j].state = key

\* d.get(key, default)
DictGet(d, key, default) ==
    IF HasKey(d, key) THEN d[CHOOSE j \in 1..Len(d) : d[j].state = key].total
    ELSE default

\* d[key] = val
DictSet(d, key, val) ==
    IF HasKey(d, key)
    THEN [j \in 1..Len(d) |-> IF d[j].state = key THEN [d[j] EXCEPT !.total = val] ELSE d[j]]
    ELSE Append(d, [state |-> key, total |-> val])

\* totals[state] = loss
AccumulateOverwriting(d, rec) == DictSet(d, rec.state, rec.loss)

\* totals[state] = totals.get(state, 0.0) + loss
Accumulate(d, rec) == DictSet(d, rec.state, FAdd(DictGet(d, rec.state, Zero), rec.loss))

RECURSIVE TransformFrom(_, _)
TransformFrom(d, recs) ==
    IF recs = <<>> THEN d ELSE TransformFrom(Accumulate(d, Head(recs)), Tail(recs))

\* transform_total_verified_loss_by_state
Transform(recs) == TransformFrom(<<>>, recs)

(***************************************************************************)
(* Validator.                                                              *)
(***************************************************************************)
Error(kind, name, total, found) ==
    [kind |-> kind, name |-> name, total |-> total, found |-> found]
NoError == Error("none", "", Zero, <<>>)

\* if total <= 0
IsNegativeOrZero(total) == FLess(total, Zero) \/ total = Zero

\* if total < 0
IsNegative(total) == FLess(total, Zero)

\* the exception verify_state_totals raises on d, or NoError
VerifyError(d) ==
    IF d = <<>> THEN Error("EmptyResult", "", Zero, <<>>)
    ELSE IF \E j \in 1..Len(d) : IsNegative(d[j].total)
         THEN LET j == CHOOSE j \in 1..Len(d) :
                           /\ IsNegative(d[j].total)
                           /\ \A h \in 1..(j - 1) : ~IsNegative(d[h].total)
              IN  Error("NegativeTotal", d[j].state, d[j].total, <<>>)
    ELSE NoError

(***************************************************************************)
(* Reporter.                                                               *)
(* sorted(totals.items(), key=lambda item: item[1], reverse=True) as       *)
(* CPython's list sort runs it on fewer than 64 items: the list is         *)
(* reversed, its first run is found (and reversed if strictly descending), *)
(* the remaining items are placed by binary insertion, and the list is     *)
(* reversed again.  Every comparison is key(a) < key(b).                   *)
(***************************************************************************)
ReverseSeq(s) == [j \in 1..Len(s) |-> s[Len(s) + 1 - j]]

\* last index of the run that starts at s[1] and holds s[j - 1]
RECURSIVE RunEnd(_, _, _)
RunEnd(s, j, descending) ==
    IF j > Len(s) THEN Len(s)
    ELSE IF FLess(s[j].total, s[j - 1].total) = descending THEN RunEnd(s, j + 1, descending)
    ELSE j - 1

\* binarysort's search for the place of pivot in s[l .. r - 1]
RECURSIVE InsertionPoint(_, _, _, _)
InsertionPoint(s, pivot, l, r) ==
    IF l >= r THEN l
    ELSE LET p == l + ((r - l) \div 2)
         IN  IF FLess(pivot.total, s[p].total) THEN InsertionPoint(s, pivot, l, p)
             ELSE InsertionPoint(s, pivot, p + 1, r)

\* binarysort: s[1 .. start - 1] is sorted; place s[start], s[start + 1], ...
RECURSIVE BinarySort(_, _)
BinarySort(s, start) ==
    IF start > Len(s) THEN s
    ELSE LET pos == InsertionPoint(s, s[start], 1, start)
         IN  BinarySort(SubSeq(s, 1, pos - 1) \o <<s[start]>> \o SubSeq(s, pos, start - 1)
                            \o SubSeq(s, start + 1, Len(s)),
                        start + 1)

\* list.sort() ascending
ListSort(s) ==
    IF Len(s) < 2 THEN s
    ELSE LET descending == FLess(s[2].total, s[1].total)
             n == RunEnd(s, 3, descending)
             run == IF descending THEN ReverseSeq(SubSeq(s, 1, n)) ELSE SubSeq(s, 1, n)
         IN  BinarySort(run \o SubSeq(s, n + 1, Len(s)), n + 1)

\* sorted(..., reverse=True)
Ranked(d) == ReverseSeq(ListSort(ReverseSeq(d)))

Min(a, b) == IF a <= b THEN a ELSE b
Max(a, b) == IF a >= b THEN a ELSE b

\* the number of items of s[:n + 1]
SliceLenOneMore(s, n) == IF n >= 0 THEN Min(n + 1, Len(s)) ELSE Max(Len(s) + n + 1, 0)

\* the number of items of s[:n]
SliceLen(s, n) == IF n >= 0 THEN Min(n, Len(s)) ELSE Max(Len(s) + n, 0)

\* ranked[:top_n]
SliceTo(s, n) == SubSeq(s, 1, SliceLen(s, n))

\* sheet = "FY22 Home"
SheetName == "FY22 Home"

\* the seven writes that precede the loop
HeaderChunks(d, sheet_name, n) ==
    << "SBA FY22 Home - Total Verified Loss by State\n",
       Repeat("=", TitleRule) \o "\n",
       "Sheet: " \o sheet_name \o "\n",
       "States counted: " \o IntStr(Len(d)) \o "\n",
       "Top N: " \o IntStr(n) \o "\n\n",
       "Rank | State | Total Verified Loss\n",
       Repeat("-", TableRule) \o "\n" >>

\* f"{i:>4} | {state:<5} | {total:>18,.2f}\n"
RowChunk(rank, item) ==
    PadLeft(IntStr(rank), RankWidth) \o " | " \o PadRight(item.state, StateWidth) \o " | "
        \o PadLeft(FormatFloat(item.total), TotalWidth) \o "\n"

\* the file as out_path.open("a") leaves it
OpenForAppend(file) == [exists |-> TRUE, data |-> file.data]

\* the text of a sequence of writes
RECURSIVE Concat(_)
Concat(chunks) == IF chunks = <<>> THEN "" ELSE Head(chunks) \o Concat(Tail(chunks))

\* the file as out_path.open("w") leaves it: created or truncated
OpenForWrite(file) == [exists |-> TRUE, data |-> ""]

(***************************************************************************)
(* State.                                                                  *)
(***************************************************************************)
VARIABLES
    file_exists,   \* file_path.exists()
    sheetnames,    \* workbook.sheetnames
    sheet,         \* workbook[sheet_name]: rows 1 .. max_row, columns H and I
    dir_exists,    \* whether out_path.parent exists
    out_file,      \* the output file: [exists, data], data the text on disk
    buffer,        \* the text written to the open file object f and not yet on disk
    top_n,         \* the top_n argument of load_state_totals_report
    pc,            \* the statement control is at
    rows,          \* the Extractor's result
    totals,        \* the Aggregator's result
    ranked,        \* local `ranked` of load_state_totals_report
    i,             \* loop variable `i` of load_state_totals_report: the next rank
    err,           \* the exception that ended the call, or NoError
    calls,         \* history: the stages and logger calls made by the current run
    start_file,    \* history: out_file when the current run or call started
    runs           \* history: the number of the current run

vars == <<file_exists, sheetnames, sheet, dir_exists, out_file, buffer, top_n, pc, rows,
          totals, ranked, i, err, calls, start_file, runs>>

input == <<file_exists, sheetnames, sheet, top_n>>

(***************************************************************************)
(* Inputs.                                                                 *)
(***************************************************************************)
BlankRow == [H |-> None, I |-> None]
TitleRow == [H |-> Text(<<"S", "t", "a", "t", "e">>), I |-> Text(<<"L", "o", "s", "s">>)]

\* the data rows a sheet of the model is made of
RowCells ==
    { [H |-> Text(<<"U", "T">>), I |-> Num(Fin(10000))],
      [H |-> Text(<<"C", "A">>), I |-> Num(Fin(10000))],
      [H |-> Text(<<" ", "U", "T", " ">>),
       I |-> Text(<<"1", ",", "2", "3", "4", ".", "5", "0">>)],
      [H |-> Text(<<"T", "X">>), I |-> Text(<<" ", "1", "2", " ">>)],
      [H |-> None, I |-> Num(Fin(5000))],
      [H |-> Text(<<" ", " ">>), I |-> Num(Fin(5000))],
      [H |-> Text(<<"T", "X">>), I |-> Text(<<" ", " ">>)],
      [H |-> Text(<<"N", "V">>), I |-> None],
      [H |-> Text(<<"C", "A">>), I |-> Text(<<"a", "b", "c">>)],
      [H |-> Text(<<"T", "X">>), I |-> Text(<<"n", "a", "n">>)],
      [H |-> Text(<<"U", "T">>), I |-> Num(Fin(-500))] }

\* rows 1 .. 5 (above the data), then up to MaxRows data rows; or a one-row sheet
Sheets ==
    { <<BlankRow, BlankRow, BlankRow, BlankRow, top>> \o data :
          top \in {BlankRow, TitleRow},
          data \in UNION { [1..n -> RowCells] : n \in 0..MaxRows } }
    \cup { <<TitleRow>> }

\* an earlier content of the output file
OldReport == "SBA FY22 Home - Total Verified Loss by State\n   1 | ZZ    |  1.00\n"

\* the numbers of bytes the file system accepts before a write fault (a full disk, a file
\* size limit)
FaultSizes == {0, 45, 100, 290}

\* the output directory and file before the first run
InitOutput ==
    \/ dir_exists = FALSE /\ out_file = [exists |-> FALSE, data |-> ""]
    \/ dir_exists = TRUE /\ out_file = [exists |-> FALSE, data |-> ""]
    \/ dir_exists = TRUE /\ out_file = [exists |-> TRUE, data |-> OldReport]

InitLocals ==
    /\ buffer = ""
    /\ ranked = <<>>
    /\ i = 1
    /\ err = NoError
    /\ calls = <<>>
    /\ start_file = out_file
    /\ runs = 1

\* the state in which run_pipeline is called
Init ==
    /\ \/ file_exists = FALSE /\ sheetnames = <<>> /\ sheet = <<>>
       \/ file_exists = TRUE /\ sheetnames = <<"Sheet1">> /\ sheet = <<>>
       \/ file_exists = TRUE /\ sheetnames = <<"Sheet1", SheetName>> /\ sheet \in Sheets
    /\ InitOutput
    /\ top_n = PipelineTopN
    /\ pc = "start"
    /\ rows = <<>>
    /\ totals = <<>>
    /\ InitLocals

(***************************************************************************)
(* run_pipeline, one action per stage; the Reporter one action per step    *)
(* that changes the output file or the text buffered for it.               *)
(***************************************************************************)
\* the exception is caught and the run goes on to the Reporter
RaiseAndGoOn(e) ==
    /\ pc' = "verified"
    /\ err' = e

\* raise
Raise(e) ==
    /\ pc' = "failed"
    /\ err' = e

\* lines 116-122: logger.info("SBA XLSX: START"); rows = extract_...(...)
Extract ==
    /\ pc = "start"
    /\ calls' = calls \o <<"START", "extract">>
    /\ \/ /\ ~file_exists
          /\ Raise(Error("FileNotFoundError", "sba_disaster_loan_data_fy22.xlsx", Zero, <<>>))
          /\ UNCHANGED rows
       \/ /\ file_exists
          /\ \A j \in 1..Len(sheetnames) : sheetnames[j] # SheetName
          /\ Raise(Error("SheetNotFound", SheetName, Zero, sheetnames))
          /\ UNCHANGED rows
       \/ /\ file_exists
          /\ \E j \in 1..Len(sheetnames) : sheetnames[j] = SheetName
          /\ rows' = ExtractRows(sheet)
          /\ pc' = "extracted"
          /\ UNCHANGED err
    /\ UNCHANGED <<input, dir_exists, out_file, buffer, totals, ranked, i, start_file, runs>>

\* line 123: totals = transform_total_verified_loss_by_state(rows=rows)
TransformStep ==
    /\ pc = "extracted"
    /\ calls' = Append(calls, "transform")
    /\ totals' = Transform(rows)
    /\ pc' = "transformed"
    /\ UNCHANGED <<input, dir_exists, out_file, buffer, rows, ranked, i, err, start_file, runs>>

\* line 124: verify_state_totals(totals=totals)
Verify ==
    /\ pc = "transformed"
    /\ calls' = Append(calls, "verify")
    /\ IF VerifyError(totals) # NoError
       THEN Raise(VerifyError(totals))
       ELSE pc' = "verified" /\ UNCHANGED err
    /\ UNCHANGED <<input, dir_exists, out_file, buffer, rows, totals, ranked, i, start_file,
                   runs>>

\* lines 97-101: mkdir, sorted, open("w")
LoadOpen ==
    /\ pc = "verified"
    /\ calls' = Append(calls, "load")
    /\ dir_exists' = TRUE
    /\ ranked' = Ranked(totals)
    /\ out_file' = OpenForWrite(out_file)
    /\ buffer' = ""
    /\ pc' = "header"
    /\ UNCHANGED <<input, rows, totals, i, err, start_file, runs>>

\* lines 102-109: the writes before the loop
LoadWriteHeader ==
    /\ pc = "header"
    /\ buffer' = buffer \o Concat(HeaderChunks(totals, SheetName, top_n))
    /\ i' = 1
    /\ pc' = "rows"
    /\ UNCHANGED <<input, dir_exists, out_file, rows, totals, ranked, err, calls, start_file,
                   runs>>

\* lines 111-112: one iteration of the loop
LoadWriteRow ==
    /\ pc = "rows"
    /\ i <= SliceLen(ranked, top_n)
    /\ buffer' = buffer \o RowChunk(i, SliceTo(ranked, top_n)[i])
    /\ i' = i + 1
    /\ UNCHANGED <<input, dir_exists, out_file, pc, rows, totals, ranked, err, calls,
                   start_file, runs>>

\* line 112: the loop ends and the with statement closes the file, which writes the
\* buffered text to disk
LoadClose ==
    /\ pc = "rows"
    /\ i > SliceLen(ranked, top_n)
    /\ out_file' = [out_file EXCEPT !.data = @ \o buffer]
    /\ buffer' = ""
    /\ pc' = "loaded"
    /\ UNCHANGED <<input, dir_exists, rows, totals, ranked, i, err, calls, start_file, runs>>

\* line 112: as LoadClose, but the file system accepts only the first n bytes of the
\* buffered text: they stay on disk and close() raises OSError, which names no file
LoadCloseFail ==
    /\ pc = "rows"
    /\ i > SliceLen(ranked, top_n)
    /\ \E n \in FaultSizes :
           /\ n < Len(buffer)
           /\ out_file' = [out_file EXCEPT !.data = @ \o SubSeq(buffer, 1, n)]
    /\ buffer' = ""
    /\ Raise(Error("OSError", "", Zero, <<>>))
    /\ UNCHANGED <<input, dir_exists, rows, totals, ranked, i, calls, start_file, runs>>

\* lines 133-134: the two closing logger.info calls
Finish ==
    /\ pc = "loaded"
    /\ calls' = calls \o <<"wrote", "END">>
    /\ pc' = "done"
    /\ UNCHANGED <<input, dir_exists, out_file, buffer, rows, totals, ranked, i, err,
                   start_file, runs>>

\* app_gracetulsi.main() is run again on the same input
Rerun ==
    /\ pc = "done"
    /\ runs < MaxRuns
    /\ runs' = runs + 1
    /\ start_file' = out_file
    /\ pc' = "start"
    /\ rows' = <<>>
    /\ totals' = <<>>
    /\ ranked' = <<>>
    /\ i' = 1
    /\ calls' = <<>>
    /\ UNCHANGED <<input, dir_exists, out_file, buffer, err>>

Load == LoadOpen \/ LoadWriteHeader \/ LoadWriteRow \/ LoadClose \/ LoadCloseFail

Next == Extract \/ TransformStep \/ Verify \/ Load \/ Finish \/ Rerun

Spec == Init /\ [][Next]_vars

(***************************************************************************)
(* Direct calls of the three pure stages, on arguments drawn from bounded  *)
(* sets.                                                                   *)
(***************************************************************************)
Categories == {"UT", "CA", "TX", "NV"}

\* the dicts with at most n keys and values in vals, in every insertion order
Dicts(n, vals) ==
    { d \in UNION { [1..m -> [state : Categories, total : vals]] : m \in 0..n } :
          \A j, h \in 1..Len(d) : j # h => d[j].state # d[h].state }

NoInput ==
    /\ file_exists = TRUE
    /\ sheetnames = <<SheetName>>
    /\ sheet = <<>>

\* the totals of the maps handed to the Reporter
LoadTotals == {Fin(10000), Fin(50000), Huge}

\* load_state_totals_report(totals=..., top_n=...) is called
InitLoad ==
    /\ NoInput
    /\ InitOutput
    /\ top_n \in (-NegTopN)..MaxTopN
    /\ pc = "verified"
    /\ rows = <<>>
    /\ totals \in Dicts(MaxCats, LoadTotals)
    /\ InitLocals

SpecLoad == InitLoad /\ [][Load]_vars

\* the totals of the maps handed to the Validator
VerifyTotals == {Fin(10000), Zero, Fin(-500), NaN, NegInf}

\* verify_state_totals(totals=...) is called
InitVerify ==
    /\ NoInput
    /\ dir_exists = TRUE
    /\ out_file = [exists |-> FALSE, data |-> ""]
    /\ top_n = PipelineTopN
    /\ pc = "transformed"
    /\ rows = <<>>
    /\ totals \in Dicts(MaxCats, VerifyTotals)
    /\ InitLocals

SpecVerify == InitVerify /\ [][Verify]_vars

\* the Raw Records handed to the Aggregator
Records == [state : {"UT", "CA"}, loss : {Fin(10000), Fin(50), Fin(-500), Huge, NegHuge}]

\* transform_total_verified_loss_by_state(rows=...) is called
InitTransform ==
    /\ NoInput
    /\ dir_exists = TRUE
    /\ out_file = [exists |-> FALSE, data |-> ""]
    /\ top_n = PipelineTopN
    /\ pc = "extracted"
    /\ rows \in UNION { [1..m -> Records] : m \in 0..MaxRecs }
    /\ totals = <<>>
    /\ InitLocals

SpecTransform == InitTransform /\ [][TransformStep]_vars

(***************************************************************************)
(* Vocabulary of the properties.                                           *)
(***************************************************************************)
\* the number of lines that precede the data rows of a report
HeaderLines == 8

\* the positions of the line ends of a text
LineEnds(text) == { j \in 1..Len(text) : SubSeq(text, j, j) = "\n" }

\* the lines of a text, each with its line end
Lines(text) ==
    LET ends == LineEnds(text)
        nth(k) == CHOOSE e \in ends : Cardinality({ x \in ends : x < e }) = k - 1
    IN  [k \in 1..Cardinality(ends) |->
            SubSeq(text, (IF k = 1 THEN 1 ELSE nth(k - 1) + 1), nth(k))]

\* the data rows of the output file: the lines that follow the header
DataRows ==
    LET lines == Lines(out_file.data)
    IN  SubSeq(lines, HeaderLines + 1, Len(lines))

Keys(d) == { d[j].state : j \in 1..Len(d) }

IsPrefix(a, b) == Len(a) <= Len(b) /\ SubSeq(b, 1, Len(a)) = a

Mentions(s, x) == \E j \in 1..Len(s) : s[j] = x

SheetPresent == \E j \in 1..Len(sheetnames) : sheetnames[j] = SheetName

\* the report a complete run on the current input writes
CompleteReport ==
    LET d == Transform(ExtractRows(sheet))
        r == SliceTo(Ranked(d), top_n)
    IN  Concat(HeaderChunks(d, SheetName, top_n) \o [j \in 1..Len(r) |-> RowChunk(j, r[j])])

\* the call of the Reporter has returned
Reported == pc \in {"loaded", "done"}

\* the Validator has returned without error
Validated == pc \in {"verified", "header", "rows", "loaded", "done"}

\* the inclusion policy, on the cells of one row
Admitted(row) ==
    /\ row.H.t = "str"
    /\ \E j \in 1..Len(row.H.s) : ~IsSpace(row.H.s[j])
    /\ \/ row.I.t = "num"
       \/ row.I.t = "str" /\ \E j \in 1..Len(row.I.s) : ~IsSpace(row.I.s[j])

\* the numbers of the sheet rows the policy admits
AdmittedRows == { r \in DataStartRow..Len(sheet) : Admitted(sheet[r]) }

\* the j-th admitted sheet row
NthAdmitted(j) == CHOOSE r \in AdmittedRows : Cardinality({ x \in AdmittedRows : x < r }) = j - 1

\* the category of a sheet row with its surrounding blanks removed
Trimmed(s) ==
    LET first == CHOOSE j \in 1..Len(s) : ~IsSpace(s[j]) /\ \A h \in 1..(j - 1) : IsSpace(s[h])
        last == CHOOSE j \in 1..Len(s) : ~IsSpace(s[j]) /\ \A h \in (j + 1)..Len(s) : IsSpace(s[h])
    IN  Join(SubSeq(s, first, last))

\* the measure expected of a cell of the model: its number, or the number its text spells
ExpectedMeasure(cell) ==
    IF cell.t = "num" THEN cell.v
    ELSE IF cell.s = <<"1", ",", "2", "3", "4", ".", "5", "0">> THEN Fin(1234 * Scale + 50)
    ELSE IF cell.s = <<" ", "1", "2", " ">> THEN Fin(12 * Scale)
    ELSE IF cell.s = <<"n", "a", "n">> THEN NaN
    ELSE Zero

\* the orders of n records
Orders(n) == { f \in [1..n -> 1..n] : \A j, h \in 1..n : j # h => f[j] # f[h] }

\* the measures of category c, in record order
Measures(recs, c) ==
    LET own == SelectSeq(recs, LAMBDA rec : rec.state = c)
    IN  [j \in 1..Len(own) |-> own[j].loss]

\* the double sum ((0.0 + s[1]) + s[2]) + ...
RECURSIVE SumInOrder(_)
SumInOrder(s) ==
    IF s = <<>> THEN Zero ELSE FAdd(SumInOrder(SubSeq(s, 1, Len(s) - 1)), s[Len(s)])

\* the sum of the measures of finite values, as an integer count of 1/Scale
RECURSIVE ExactSum(_)
ExactSum(s) == IF s = <<>> THEN 0 ELSE s[1].v + ExactSum(Tail(s))

\* the totals do not depend on the order of the records
OrderIndependent ==
    \A f \in Orders(Len(rows)) :
        \A c \in Keys(totals) :
            DictGet(Transform([j \in 1..Len(rows) |-> rows[f[j]]]), c, Zero)
                = DictGet(totals, c, Zero)

\* the keys are the categories of the records and each value is the sum in record order
KeysAndSums ==
    /\ err = NoError
    /\ Keys(totals) = { rows[j].state : j \in 1..Len(rows) }
    /\ Len(totals) = Cardinality(Keys(totals))
    /\ \A c \in Keys(totals) : DictGet(totals, c, Zero) = SumInOrder(Measures(rows, c))
    /\ rows = <<>> => totals = <<>>

\* the index of the first extracted row of category c
FirstSeen(c) == CHOOSE j \in 1..Len(rows) : rows[j].state = c /\ \A h \in 1..(j - 1) : rows[h].state # c

(***************************************************************************)
(* C1.  run_pipeline calls the stages in the order Extractor, Aggregator,  *)
(* Validator, Reporter.  A missing file, a missing sheet, an empty result  *)
(* or a negative total ends the run with that error: the Reporter is not   *)
(* called and the output file is as it was when the run started.           *)
(***************************************************************************)
C1_StagesInOrderAbortBeforeReporter ==
    /\ IsPrefix(calls, <<"START", "extract", "transform", "verify", "load", "wrote", "END">>)
    /\ Mentions(calls, "extract") /\ ~file_exists
           => pc = "failed" /\ err.kind = "FileNotFoundError"
    /\ Mentions(calls, "extract") /\ file_exists /\ ~SheetPresent
           => pc = "failed" /\ err.kind = "SheetNotFound" /\ err.name = SheetName
                 /\ err.found = sheetnames
    /\ Mentions(calls, "verify") /\ totals = <<>>
           => pc = "failed" /\ err.kind = "EmptyResult"
    /\ Mentions(calls, "verify") /\ (\E j \in 1..Len(totals) : FLess(totals[j].total, Zero))
           => pc = "failed" /\ err.kind = "NegativeTotal"
    /\ pc = "failed"
         /\ err.kind \in {"FileNotFoundError", "SheetNotFound", "EmptyResult", "NegativeTotal"}
           => ~Mentions(calls, "load") /\ out_file = start_file

\* a run on a sheet with a negative total has failed, an earlier report being on disk
C1_Witness ==
    /\ pc = "failed"
    /\ err.kind = "NegativeTotal"
    /\ start_file.exists
    /\ calls = <<"START", "extract", "transform", "verify">>

(***************************************************************************)
(* C2 as stated.  When load_state_totals_report has returned, the number   *)
(* of data rows of the report is min(top_n, number of categories), for     *)
(* every map and every top_n.                                              *)
(***************************************************************************)
C2_RowCountIsMinForEveryTopN ==
    pc = "loaded" => Len(DataRows) = Min(top_n, Len(totals))

(***************************************************************************)
(* C2 amended.  For every map and every top_n >= 0 the number of data rows *)
(* of the report is min(top_n, number of categories); when top_n is at     *)
(* least the number of categories every category has its row and there is  *)
(* no other row.  For a negative top_n the report has                      *)
(* max(0, number of categories + top_n) data rows.                         *)
(***************************************************************************)
C2_RowCountIsMinForNonNegativeTopN ==
    /\ pc = "loaded" /\ top_n < 0 => Len(DataRows) = Max(Len(totals) + top_n, 0)
    /\ pc = "loaded" /\ top_n >= 0
        => /\ Len(Lines(out_file.data)) >= HeaderLines
           /\ Len(DataRows) = Min(top_n, Len(totals))
           /\ top_n >= Len(totals)
                => \A c \in Keys(totals) :
                       \E j \in 1..Len(DataRows) :
                           DataRows[j] = RowChunk(j, [state |-> c, total |-> DictGet(totals, c, Zero)])

\* a report of three categories was written with top_n = 4
C2_Witness ==
    /\ pc = "loaded"
    /\ Len(totals) = 3
    /\ top_n = 4
    /\ Len(DataRows) = 3

(***************************************************************************)
(* C3.  Whenever the Validator has returned without error in a run of the  *)
(* pipeline, the Aggregate Map is non-empty and every total is >= 0.       *)
(***************************************************************************)
C3_ValidatedTotalsNonNegative ==
    Validated => /\ totals # <<>>
                 /\ \A j \in 1..Len(totals) : FGeq(totals[j].total, Zero)

(***************************************************************************)
(* C4.  verify_state_totals raises the empty-result error exactly when the *)
(* map has no entry; otherwise it raises the negative-total error exactly  *)
(* when some total is less than zero, and the error names a category whose *)
(* total is negative, with that total.  The map is never changed.          *)
(***************************************************************************)
C4_ValidatorErrors ==
    /\ [](pc # "transformed"
            => /\ err.kind \in {"none", "EmptyResult", "NegativeTotal"}
               /\ pc = "failed" <=> err.kind # "none"
               /\ pc = "verified" <=> err.kind = "none"
               /\ err.kind = "EmptyResult" <=> totals = <<>>
               /\ err.kind = "NegativeTotal"
                    <=> totals # <<>> /\ \E j \in 1..Len(totals) : FLess(totals[j].total, Zero)
               /\ err.kind = "NegativeTotal"
                    => \E j \in 1..Len(totals) :
                           /\ totals[j].state = err.name
                           /\ totals[j].total = err.total
                           /\ FLess(err.total, Zero))
    /\ [][totals' = totals]_vars

\* the Validator rejected a map whose second entry is the negative one
C4_Witness ==
    /\ pc = "failed"
    /\ err.kind = "NegativeTotal"
    /\ Len(totals) >= 2
    /\ ~FLess(totals[1].total, Zero)
    /\ err.name = totals[2].state

(***************************************************************************)
(* C5.  The Extractor returns, in sheet order from row 6 to the last row,  *)
(* exactly the rows whose category cell is present and not empty after     *)
(* trimming and whose measure cell is present and not a blank string; a    *)
(* row with a blank measure is not admitted as 0.0 and adds no key to the  *)
(* Aggregate Map.                                                          *)
(***************************************************************************)
C5_ExtractorInclusionPolicy ==
    /\ pc \notin {"start", "failed"}
         => /\ Len(rows) = Cardinality(AdmittedRows)
            /\ \A j \in 1..Len(rows) : rows[j].state = Trimmed(sheet[NthAdmitted(j)].H.s)
    /\ pc \notin {"start", "extracted", "failed"}
         => Keys(totals) = { Trimmed(sheet[r].H.s) : r \in AdmittedRows }

\* rows were extracted from a sheet that has a TX row with a blank measure, and no TX came out
C5_Witness ==
    /\ pc = "extracted"
    /\ rows # <<>>
    /\ \E r \in DataStartRow..Len(sheet) :
           /\ sheet[r].H = Text(<<"T", "X">>)
           /\ sheet[r].I = Text(<<" ", " ">>)
    /\ \E r \in DataStartRow..Len(sheet) : sheet[r].H.t = "none"
    /\ \A j \in 1..Len(rows) : rows[j].state # "TX"

(***************************************************************************)
(* C6.  A row with a non-blank category and a non-blank measure is         *)
(* included and the extraction does not fail on it: a numeric cell gives   *)
(* its own value, "1,234.50" gives 1234.50, " 12 " gives 12.0, and "abc"   *)
(* gives 0.0.                                                              *)
(***************************************************************************)
C6_LenientCoercion ==
    /\ Mentions(calls, "extract") /\ file_exists /\ SheetPresent
         => err.kind \notin {"FileNotFoundError", "SheetNotFound"}
    /\ pc \notin {"start", "failed"}
         => /\ Len(rows) >= Cardinality(AdmittedRows)
            /\ \A j \in 1..Cardinality(AdmittedRows) :
                   rows[j].loss = ExpectedMeasure(sheet[NthAdmitted(j)].I)

\* the rows extracted hold 1234.50 read from "1,234.50" and 0.0 read from "abc"
C6_Witness ==
    /\ pc = "extracted"
    /\ \E j, h \in 1..Len(rows) :
           /\ rows[j].loss = Fin(123450)
           /\ sheet[NthAdmitted(j)].I.t = "str"
           /\ rows[h].loss = Zero
           /\ sheet[NthAdmitted(h)].I = Text(<<"a", "b", "c">>)

(***************************************************************************)
(* C7 as stated.  The map returned for a sequence of Raw Records has       *)
(* exactly the categories of the sequence as keys, the value of a category *)
(* is the sum of its measures, and that value is the same for every order  *)
(* of the records; an empty sequence gives an empty map and no error.      *)
(***************************************************************************)
C7_SumsIndependentOfOrder ==
    pc = "transformed" => KeysAndSums /\ OrderIndependent

(***************************************************************************)
(* C7 amended.  The map has exactly the categories of the sequence as      *)
(* keys and the value of a category is the double-precision sum of its     *)
(* measures accumulated in record order from 0.0; when every measure is    *)
(* finite and no addition rounds or overflows, that value is the exact sum *)
(* and is the same for every order of the records.  An empty sequence      *)
(* gives an empty map and no error.                                        *)
(***************************************************************************)
C7_SumsInRecordOrder ==
    pc = "transformed"
        => /\ KeysAndSums
           /\ (\A j \in 1..Len(rows) : rows[j].loss.k = "fin")
                => /\ OrderIndependent
                   /\ \A c \in Keys(totals) :
                          DictGet(totals, c, Zero) = Fin(ExactSum(Measures(rows, c)))

\* three finite records of two categories were summed, UT from two records
C7_Witness ==
    /\ pc = "transformed"
    /\ Len(rows) = 3
    /\ \A j \in 1..3 : rows[j].loss.k = "fin"
    /\ rows[1].state = "UT" /\ rows[2].state = "CA" /\ rows[3].state = "UT"
    /\ rows[1].loss # rows[3].loss
    /\ Len(totals) = 2

(***************************************************************************)
(* C8.  The data rows of the report of a run are ordered by total          *)
(* descending, carry the ranks 1, 2, 3, ... in that order, and categories  *)
(* with equal totals are in the order in which the extracted rows first    *)
(* mention them.                                                           *)
(***************************************************************************)
C8_RankedDescendingStable ==
    Reported
        => /\ Len(DataRows) <= Len(ranked)
           /\ \A j \in 1..Len(DataRows) : DataRows[j] = RowChunk(j, ranked[j])
           /\ \A j \in 1..(Len(DataRows) - 1) :
                  /\ FGeq(ranked[j].total, ranked[j + 1].total)
                  /\ ranked[j].total = ranked[j + 1].total
                       => FirstSeen(ranked[j].state) < FirstSeen(ranked[j + 1].state)

(***************************************************************************)
(* C9.  Every successful run leaves exactly the report of its input in the *)
(* output file, whatever the file held before; a run that follows a        *)
(* successful run on the same input leaves the file as it found it.        *)
(***************************************************************************)
C9_RerunWritesIdenticalReport ==
    Reported
        => /\ out_file = [exists |-> TRUE, data |-> CompleteReport]
           /\ runs >= 2 => out_file = start_file

\* a second run has completed over the report of the first, which has data rows
C9_Witness ==
    /\ pc = "done"
    /\ runs = 2
    /\ Len(DataRows) >= 2
    /\ start_file.exists

(***************************************************************************)
(* C10.  In every state during or after a call of the Reporter the output  *)
(* file holds either what it held before the call or the complete new      *)
(* report.                                                                 *)
(***************************************************************************)
C10_OldOrCompleteReport ==
    \/ out_file = start_file
    \/ out_file = [exists |-> TRUE, data |-> CompleteReport]
====
